---- MODULE Spec2Model ----
(***************************************************************************)
(* Voice-to-text dictation app (src/src/App.tsx): the transcript merge     *)
(* rules of recognition.onresult, the tab store (addNewTab, closeTab,      *)
(* rename, select, manual edit), the listening session and its silence     *)
(* watchdog.                                                               *)
(*                                                                         *)
(* JavaScript strings are sequences of one-character strings, so that      *)
(* toLowerCase, trim, startsWith, endsWith, slice and charAt are computed  *)
(* character by character as the runtime computes them.                    *)
(***************************************************************************)
EXTENDS Integers, Sequences, FiniteSets, TLC

(***************************************************************************)
(* Bounds of the model                                                     *)
(***************************************************************************)
\* longest document content the model lets an utterance produce
MaxLen == 4
\* most tabs open at once
MaxTabs == 2
\* longest content drawn for the merge-rule harness
MaxProbeLen == 2
\* most started engine instances that are no longer held in state
MaxDetached == 1
\* clock reading (ms) when the component mounts
StartTime == 1000
\* how many watchdog periods the clock may run past StartTime
MaxTicks == 1
\* the same, where the watchdog is followed past its threshold
MaxWatchTicks == 9

(***************************************************************************)
(* String primitives                                                       *)
(***************************************************************************)
LowerLetters ==
  <<"a", "b", "c", "d", "e", "f", "g", "h", "i", "j", "k", "l", "m",
    "n", "o", "p", "q", "r", "s", "t", "u", "v", "w", "x", "y", "z">>

UpperLetters ==
  <<"A", "B", "C", "D", "E", "F", "G", "H", "I", "J", "K", "L", "M",
    "N", "O", "P", "Q", "R", "S", "T", "U", "V", "W", "X", "Y", "Z">>

\* characters String.prototype.trim removes
WhiteSpace == {" ", "\n", "\t"}

toLowerCaseChar(c) ==
  IF \E i \in 1..26 : UpperLetters[i] = c
    THEN LowerLetters[CHOOSE i \in 1..26 : UpperLetters[i] = c]
    ELSE c

toUpperCaseChar(c) ==
  IF \E i \in 1..26 : LowerLetters[i] = c
    THEN UpperLetters[CHOOSE i \in 1..26 : LowerLetters[i] = c]
    ELSE c

toLowerCase(s) == [i \in 1..Len(s) |-> toLowerCaseChar(s[i])]

RECURSIVE trimStart(_)
trimStart(s) ==
  IF s # <<>> /\ Head(s) \in WhiteSpace THEN trimStart(Tail(s)) ELSE s

RECURSIVE trimEnd(_)
trimEnd(s) ==
  IF s # <<>> /\ s[Len(s)] \in WhiteSpace
    THEN trimEnd(SubSeq(s, 1, Len(s) - 1))
    ELSE s

trim(s) == trimEnd(trimStart(s))

startsWith(s, p) == Len(s) >= Len(p) /\ SubSeq(s, 1, Len(p)) = p

endsWith(s, p) ==
  Len(s) >= Len(p) /\ SubSeq(s, Len(s) - Len(p) + 1, Len(s)) = p

\* s.slice(0, -1)
sliceDropLast(s) == IF s = <<>> THEN <<>> ELSE SubSeq(s, 1, Len(s) - 1)

\* s.charAt(0).toUpperCase() + s.slice(1)
capitalizeFirst(s) ==
  IF s = <<>> THEN <<>> ELSE <<toUpperCaseChar(s[1])>> \o Tail(s)

DigitChars == <<"0", "1", "2", "3", "4", "5", "6", "7", "8", "9">>

\* String(n) for a non-negative integer: its decimal digits
RECURSIVE String(_)
String(n) ==
  IF n < 10
    THEN <<DigitChars[n + 1]>>
    ELSE String(n \div 10) \o <<DigitChars[(n % 10) + 1]>>

SP == <<" ">>
LF == <<"\n">>

(***************************************************************************)
(* Command table                                                           *)
(***************************************************************************)
DICTATION_COMMANDS ==
  {  << <<"p", "e", "r", "i", "o", "d">>,
        <<".">> >>,
     << <<"c", "o", "m", "m", "a">>,
        <<",">> >>,
     << <<"q", "u", "e", "s", "t", "i", "o", "n", " ", "m", "a", "r", "k">>,
        <<"?">> >>,
     << <<"c", "o", "l", "o", "n">>,
        <<":">> >>,
     << <<"s", "e", "m", "i", " ", "c", "o", "l", "o", "n">>,
        <<";">> >>,
     << <<"s", "e", "m", "i", "c", "o", "l", "o", "n">>,
        <<";">> >>,
     << <<"e", "x", "c", "l", "a", "m", "a", "t", "i", "o", "n", " ", "m", "a", "r", "k">>,
        <<"!">> >>,
     << <<"e", "x", "c", "l", "a", "m", "a", "t", "i", "o", "n", " ", "p", "o", "i", "n", "t">>,
        <<"!">> >>,
     << <<"d", "a", "s", "h">>,
        <<"-">> >>,
     << <<"h", "y", "p", "h", "e", "n">>,
        <<"-">> >>,
     << <<"n", "e", "w", " ", "l", "i", "n", "e">>,
        <<"\n">> >>,
     << <<"n", "e", "w", " ", "p", "a", "r", "a", "g", "r", "a", "p", "h">>,
        <<"\n", "\n">> >>,
     << <<"o", "p", "e", "n", " ", "p", "a", "r", "e", "n", "t", "h", "e", "s", "e", "s">>,
        <<"(">> >>,
     << <<"c", "l", "o", "s", "e", " ", "p", "a", "r", "e", "n", "t", "h", "e", "s", "e", "s">>,
        <<")">> >>,
     << <<"s", "m", "i", "l", "e", "y">>,
        <<":", "-", ")">> >>,
     << <<"s", "m", "i", "l", "e", "y", " ", "f", "a", "c", "e">>,
        <<":", "-", ")">> >>,
     << <<"s", "a", "d", " ", "f", "a", "c", "e">>,
        <<":", "-", "(">> >> }

CommandKeys == {e[1] : e \in DICTATION_COMMANDS}

\* DICTATION_COMMANDS is an object literal, so a property read also finds
\* what it inherits from Object.prototype.  After toLowerCase() only the
\* all-lower-case inherited names can be asked for.
ObjectPrototypeKeys ==
  { <<"c", "o", "n", "s", "t", "r", "u", "c", "t", "o", "r">>,
    <<"_", "_", "p", "r", "o", "t", "o", "_", "_">> }

\* DICTATION_COMMANDS[transcriptText]: a string, an inherited non-string
\* value (truthy), or undefined
lookupCommand(transcriptText) ==
  IF transcriptText \in CommandKeys
    THEN [type |-> "string",
          value |-> (CHOOSE e \in DICTATION_COMMANDS : e[1] = transcriptText)[2]]
    ELSE IF transcriptText \in ObjectPrototypeKeys
      THEN [type |-> "object", value |-> <<>>]
      ELSE [type |-> "undefined", value |-> <<>>]

\* if (command)
truthy(command) ==
  \/ command.type = "object"
  \/ command.type = "string" /\ command.value # <<>>

\* event.results[last][0].transcript.toLowerCase().trim()
normalize(transcript) == trim(toLowerCase(transcript))

(***************************************************************************)
(* Merge rules of recognition.onresult                                     *)
(***************************************************************************)
\* the command branch with the trailing space of the content left in place
commandContent_KeepSpace(content, command) ==
  IF startsWith(command, LF) /\ content # <<>> /\ ~endsWith(content, SP)
    THEN content \o SP \o command
    ELSE content \o command \o SP

\* command branch, body of the setTabs updater for the matching tab
commandContent(content, command) ==
  IF startsWith(command, LF) /\ content # <<>> /\ ~endsWith(content, SP)
    THEN content \o SP \o command
    ELSE IF content # <<>> /\ endsWith(content, SP) /\ command # SP
      THEN sliceDropLast(content) \o command \o SP
      ELSE content \o command \o SP

\* dictated branch: the test made on currentTab.content
sentenceStart(currentContent) ==
  \/ endsWith(currentContent, <<".", " ">>)
  \/ endsWith(currentContent, <<"!", " ">>)
  \/ endsWith(currentContent, <<"?", " ">>)
  \/ currentContent = <<>>

\* dictated branch: processedText
processText(atSentenceStart, transcriptText) ==
  IF atSentenceStart THEN capitalizeFirst(transcriptText) ELSE transcriptText

\* dictated branch, body of the setTabs updater for the matching tab
dictatedContent(content, processedText) ==
  content
    \o (IF content # <<>> /\ ~endsWith(content, SP) THEN SP ELSE <<>>)
    \o processedText \o SP

(***************************************************************************)
(* Inputs                                                                  *)
(***************************************************************************)
\* raw transcripts the engine may deliver
Transcripts ==
  { <<" ", "A", " ">>,
    <<"P", "e", "r", "i", "o", "d">>,
    <<>>,
    <<"c", "o", "n", "s", "t", "r", "u", "c", "t", "o", "r">> }

\* raw transcripts delivered while the store operations are explored
StoreTranscripts ==
  { <<"P", "e", "r", "i", "o", "d">> }

\* raw transcripts delivered while the watchdog is followed
WatchTranscripts ==
  { <<" ", "A", " ">> }

\* values typed into the textarea
TypedContents == { <<>>, <<"a">> }

\* values typed into a title input
TypedTitles == { <<" ">> }

\* event.error codes
ErrorCodes == { "no-speech" }

(***************************************************************************)
(* Program constants                                                       *)
(***************************************************************************)
\* setInterval(checkSpeechDetection, 1000)
TickInterval == 1000
\* timeSinceLastSpeech > 5000
SilenceThreshold == 5000
\* setTimeout(() => setShowNoSpeechDetected(false), 3000)
HideDelay == 3000

\* null (tab ids and editing targets are never the empty string)
Null == <<>>
\* no interval is running
NoTimer == -1

DefaultTabs ==
  << [id |-> <<"1">>,
      title |-> <<"U", "n", "t", "i", "t", "l", "e", "d", " ", "1">>,
      content |-> <<>>] >>

(***************************************************************************)
(* State                                                                   *)
(***************************************************************************)
VARIABLES
  tabs,                 \* useState<Tab[]>
  activeTabId,          \* useState
  activeTabRef,         \* useRef, synchronised by the [activeTabId] effect
  isEditingTitle,       \* useState<string | null>
  editingTitleValue,    \* useState
  isListening,          \* useState
  recognition,          \* useState: "null", or the held instance "stopped" / "started"
  detached,             \* closures of the started instances no longer held in state
  error,                \* useState<string>
  showNoSpeechDetected, \* useState
  noSpeechTimeout,      \* due time of the running interval, or NoTimer
  hideTimers,           \* due times of pending setTimeout(..., 3000) callbacks
  lastSpeechDetected,   \* useRef<number>
  now,                  \* Date.now()
  crashed,              \* a render threw and React unmounted the tree
  probe                 \* merge-rule harness

vars ==
  << tabs, activeTabId, activeTabRef, isEditingTitle, editingTitleValue,
     isListening, recognition, detached, error, showNoSpeechDetected,
     noSpeechTimeout, hideTimers, lastSpeechDetected, now, crashed, probe >>

storeVars == << tabs, activeTabId, activeTabRef >>
titleVars == << isEditingTitle, editingTitleValue >>
engineVars == << recognition, detached >>
watchVars ==
  << showNoSpeechDetected, noSpeechTimeout, hideTimers, lastSpeechDetected >>

IdleProbe ==
  [phase |-> "idle", content |-> <<>>, transcript |-> <<>>,
   result |-> <<>>, kind |-> ""]

TabIds(ts) == {ts[i].id : i \in 1..Len(ts)}

\* ts.find(tab => tab.id === id) as an index, 0 when there is none
findIndex(ts, id) ==
  IF \E i \in 1..Len(ts) : ts[i].id = id
    THEN CHOOSE i \in 1..Len(ts) :
           ts[i].id = id /\ \A j \in 1..(i - 1) : ts[j].id # id
    ELSE 0

NotSupported == "Speech recognition is not supported in this browser."

\* the component after its first render and effects
Mounted ==
  /\ tabs = DefaultTabs
  /\ activeTabId = <<"1">>
  /\ activeTabRef = <<"1">>
  /\ isEditingTitle = Null
  /\ editingTitleValue = <<>>
  /\ isListening = FALSE
  /\ \E available \in BOOLEAN :
       /\ recognition = IF available THEN "stopped" ELSE "null"
       /\ error = IF available THEN "" ELSE NotSupported
  /\ detached = {}
  /\ showNoSpeechDetected = FALSE
  /\ noSpeechTimeout = NoTimer
  /\ hideTimers = {}
  /\ lastSpeechDetected = StartTime
  /\ now = StartTime
  /\ crashed = FALSE

Init == Mounted /\ probe = IdleProbe

(***************************************************************************)
(* Effects                                                                 *)
(***************************************************************************)
\* What onresult reads of the tabs array it closed over: which ids it
\* holds, in order, and for each tab the capitalisation test on its content.
\* The array is immutable, so this is all a handler can ever see of it.
closure(ts) ==
  [i \in 1..Len(ts) |->
     [id |-> ts[i].id, sentenceStart |-> sentenceStart(ts[i].content)]]

\* the [tabs] effect: every new tabs array builds a new recognition object
\* whose handlers close over that array, and puts it in state; an object
\* that was started keeps running with the array it closed over
TabsEffect ==
  /\ recognition' = IF recognition = "null" THEN "null" ELSE "stopped"
  /\ detached' =
       IF recognition = "started" THEN detached \cup {closure(tabs)} ELSE detached
  /\ error' = IF recognition = "null" THEN NotSupported ELSE error

\* the closures of the started recognition objects
Started ==
  detached \cup (IF recognition = "started" THEN {closure(tabs)} ELSE {})

(***************************************************************************)
(* recognition.onresult                                                    *)
(***************************************************************************)
\* what the handler does with an utterance, given the array it closed over
resultKind(snapshot, prevTabs, ref, transcriptText) ==
  IF findIndex(snapshot, ref) = 0
    THEN "dropped"
    ELSE IF truthy(lookupCommand(transcriptText))
      THEN IF /\ lookupCommand(transcriptText).type # "string"
              /\ findIndex(prevTabs, ref) # 0
             THEN "threw"
             ELSE "command"
      ELSE "dictated"

\* the utterance reaches a setTabs updater that returns
merges(kind) == kind \in {"command", "dictated"}

\* content the updater gives the matching tab
mergedContent(content, atSentenceStart, transcriptText) ==
  IF truthy(lookupCommand(transcriptText))
    THEN commandContent(content, lookupCommand(transcriptText).value)
    ELSE dictatedContent(content, processText(atSentenceStart, transcriptText))

\* prevTabs.map(tab => tab.id === activeTabRef.current ? {...} : tab)
mergedTabs(snapshot, prevTabs, ref, transcriptText) ==
  [i \in 1..Len(prevTabs) |->
     IF prevTabs[i].id = ref
       THEN [prevTabs[i] EXCEPT
               !.content = mergedContent(prevTabs[i].content,
                                         snapshot[findIndex(snapshot, ref)].sentenceStart,
                                         transcriptText)]
       ELSE prevTabs[i]]

OnResult(snapshot, transcript) ==
  LET transcriptText == normalize(transcript)
      kind == resultKind(snapshot, tabs, activeTabRef, transcriptText)
      newTabs == mergedTabs(snapshot, tabs, activeTabRef, transcriptText)
  IN /\ ~crashed
     /\ snapshot \in Started
     /\ CASE kind = "dropped" ->
               UNCHANGED << storeVars, titleVars, isListening, engineVars,
                            error, watchVars, now, crashed, probe >>
          [] kind = "threw" ->
               \* the updater throws while React renders: the tree is unmounted
               /\ crashed' = TRUE
               /\ lastSpeechDetected' = now
               /\ showNoSpeechDetected' = FALSE
               /\ noSpeechTimeout' = NoTimer
               /\ UNCHANGED << storeVars, titleVars, isListening, engineVars,
                               error, hideTimers, now, probe >>
          [] OTHER ->
               /\ \A i \in 1..Len(newTabs) : Len(newTabs[i].content) <= MaxLen
               /\ tabs' = newTabs
               /\ TabsEffect
               /\ lastSpeechDetected' = now
               /\ showNoSpeechDetected' = FALSE
               /\ UNCHANGED << activeTabId, activeTabRef, titleVars, isListening,
                               noSpeechTimeout, hideTimers, now, crashed, probe >>

\* onerror that leaves the watchdog of the session as it is
OnError_LeavesWatchdog(snapshot, code) ==
  /\ ~crashed
  /\ snapshot \in Started
  /\ error' = "Error occurred in recognition: " \o code
  /\ isListening' = FALSE
  /\ IF recognition = "started" /\ snapshot = closure(tabs)
       THEN recognition' = "stopped" /\ detached' = detached
       ELSE recognition' = recognition /\ detached' = detached \ {snapshot}
  /\ UNCHANGED << storeVars, titleVars, watchVars, now, crashed, probe >>

\* onerror that reports the error and leaves the session listening
OnError_KeepsListening(snapshot, code) ==
  /\ ~crashed
  /\ snapshot \in Started
  /\ error' = "Error occurred in recognition: " \o code
  /\ IF recognition = "started" /\ snapshot = closure(tabs)
       THEN recognition' = "stopped" /\ detached' = detached
       ELSE recognition' = recognition /\ detached' = detached \ {snapshot}
  /\ UNCHANGED << storeVars, titleVars, isListening, watchVars, now, crashed,
                  probe >>

\* recognition.onerror; the engine ends the session of the object that failed
OnError(snapshot, code) ==
  /\ ~crashed
  /\ snapshot \in Started
  /\ error' = "Error occurred in recognition: " \o code
  /\ isListening' = FALSE
  /\ IF recognition = "started" /\ snapshot = closure(tabs)
       THEN recognition' = "stopped" /\ detached' = detached
       ELSE recognition' = recognition /\ detached' = detached \ {snapshot}
  /\ IF isListening
       THEN noSpeechTimeout' = NoTimer /\ showNoSpeechDetected' = FALSE
       ELSE UNCHANGED << noSpeechTimeout, showNoSpeechDetected >>
  /\ UNCHANGED << storeVars, titleVars, hideTimers, lastSpeechDetected, now,
                  crashed, probe >>

(***************************************************************************)
(* Listening session                                                       *)
(***************************************************************************)
ToggleListening ==
  /\ ~crashed
  /\ recognition # "null"
  /\ IF isListening
       THEN \* recognition.stop(); clearInterval; the [isListening] effect
            /\ recognition' = "stopped"
            /\ noSpeechTimeout' = NoTimer
            /\ isListening' = FALSE
            /\ showNoSpeechDetected' = FALSE
            /\ UNCHANGED lastSpeechDetected
       ELSE IF recognition = "started"
         THEN \* start() on a started object throws InvalidStateError
              /\ UNCHANGED << recognition, noSpeechTimeout, isListening,
                              showNoSpeechDetected, lastSpeechDetected >>
         ELSE /\ Cardinality(detached) < MaxDetached
              /\ recognition' = "started"
              /\ lastSpeechDetected' = now
              /\ isListening' = TRUE
              /\ showNoSpeechDetected' = FALSE
              /\ noSpeechTimeout' = now + TickInterval
  /\ UNCHANGED << storeVars, titleVars, detached, error, hideTimers, now,
                  crashed, probe >>

(***************************************************************************)
(* Tab store                                                               *)
(***************************************************************************)
\* render: activeTab = tabs.find(...) || tabs[0]; activeTab.content throws
\* when there is no tab at all
renderThrows(ts) == ts = <<>>

\* the content the textarea shows
shownContent ==
  IF findIndex(tabs, activeTabId) # 0
    THEN tabs[findIndex(tabs, activeTabId)].content
    ELSE tabs[1].content

\* handleTextChange -> updateActiveTabContent(e.target.value)
HandleTextChange(value) ==
  /\ ~crashed
  /\ value # shownContent
  /\ tabs' = [i \in 1..Len(tabs) |->
                IF tabs[i].id = activeTabId
                  THEN [tabs[i] EXCEPT !.content = value]
                  ELSE tabs[i]]
  /\ TabsEffect
  /\ UNCHANGED << activeTabId, activeTabRef, titleVars, isListening, watchVars,
                  now, crashed, probe >>

CopyFailed == "Failed to copy text to clipboard"

\* copyToClipboard: navigator.clipboard.writeText resolves or rejects; the
\* copied flag it sets for 2s on success is read by nothing but the icon
CopyToClipboard(written) ==
  /\ ~crashed
  /\ error' = IF written THEN error ELSE CopyFailed
  /\ UNCHANGED << storeVars, titleVars, isListening, engineVars, watchVars,
                  now, crashed, probe >>

newTabTitle(count) ==
  <<"U", "n", "t", "i", "t", "l", "e", "d", " ">> \o String(count + 1)

newTabId(clock) == String(clock)

AddNewTab ==
  /\ ~crashed
  /\ Len(tabs) < MaxTabs
  /\ tabs' = Append(tabs, [id |-> newTabId(now),
                           title |-> newTabTitle(Len(tabs)),
                           content |-> <<>>])
  /\ activeTabId' = newTabId(now)
  /\ activeTabRef' = newTabId(now)
  /\ isEditingTitle' = newTabId(now)
  /\ editingTitleValue' = newTabTitle(Len(tabs))
  /\ TabsEffect
  /\ UNCHANGED << isListening, watchVars, now, crashed, probe >>

\* prev.filter(tab => tab.id !== tabId)
filterOut(ts, tabId) == SelectSeq(ts, LAMBDA tab : tab.id # tabId)

\* tabs[tabIndex - 1]?.id || tabs[tabIndex + 1]?.id
nextTabId(ts, tabId) ==
  LET tabIndex == findIndex(ts, tabId)
  IN IF tabIndex > 1
       THEN ts[tabIndex - 1].id
       ELSE IF tabIndex + 1 <= Len(ts) THEN ts[tabIndex + 1].id ELSE Null

CloseTab(tabId) ==
  /\ ~crashed
  /\ tabId \in TabIds(tabs)
  /\ IF Len(tabs) = 1
       THEN UNCHANGED << storeVars, engineVars, error, crashed, noSpeechTimeout >>
       ELSE /\ tabs' = filterOut(tabs, tabId)
            /\ activeTabId' =
                 IF activeTabId = tabId THEN nextTabId(tabs, tabId) ELSE activeTabId
            /\ activeTabRef' = activeTabId'
            /\ TabsEffect
            /\ crashed' = renderThrows(tabs')
            /\ noSpeechTimeout' =
                 IF renderThrows(tabs') THEN NoTimer ELSE noSpeechTimeout
  /\ UNCHANGED << titleVars, isListening, showNoSpeechDetected, hideTimers,
                  lastSpeechDetected, now, probe >>

\* the title input of a tab is rendered while isEditingTitle is its id
titleInputShown == isEditingTitle \in TabIds(tabs)

\* edit button of the i-th tab
StartEditingTitle(i) ==
  /\ ~crashed
  /\ i \in 1..Len(tabs)
  /\ isEditingTitle' = tabs[i].id
  /\ editingTitleValue' = tabs[i].title
  /\ UNCHANGED << storeVars, isListening, engineVars, error, watchVars, now,
                  crashed, probe >>

HandleTitleChange(value) ==
  /\ ~crashed
  /\ titleInputShown
  /\ value # editingTitleValue
  /\ editingTitleValue' = value
  /\ UNCHANGED << storeVars, isEditingTitle, isListening, engineVars, error,
                  watchVars, now, crashed, probe >>

\* editingTitleValue.trim() || 'Untitled'
finishedTitle(value) ==
  IF trim(value) # <<>>
    THEN trim(value)
    ELSE <<"U", "n", "t", "i", "t", "l", "e", "d">>

\* onBlur, or Enter in the title input
FinishEditingTitle ==
  /\ ~crashed
  /\ titleInputShown
  /\ tabs' = [i \in 1..Len(tabs) |->
                IF tabs[i].id = isEditingTitle
                  THEN [tabs[i] EXCEPT !.title = finishedTitle(editingTitleValue)]
                  ELSE tabs[i]]
  /\ TabsEffect
  /\ isEditingTitle' = Null
  /\ editingTitleValue' = <<>>
  /\ UNCHANGED << activeTabId, activeTabRef, isListening, watchVars, now,
                  crashed, probe >>

\* Escape in the title input
CancelEditingTitle ==
  /\ ~crashed
  /\ titleInputShown
  /\ isEditingTitle' = Null
  /\ editingTitleValue' = <<>>
  /\ UNCHANGED << storeVars, isListening, engineVars, error, watchVars, now,
                  crashed, probe >>

HandleTabClick(tabId) ==
  /\ ~crashed
  /\ tabId \in TabIds(tabs)
  /\ activeTabId' = tabId
  /\ activeTabRef' = tabId
  /\ IF tabId = activeTabId
       THEN /\ isEditingTitle' = tabId
            /\ editingTitleValue' = tabs[findIndex(tabs, tabId)].title
       ELSE UNCHANGED titleVars
  /\ UNCHANGED << tabs, isListening, engineVars, error, watchVars, now,
                  crashed, probe >>

(***************************************************************************)
(* Clock and timers                                                        *)
(***************************************************************************)
\* callbacks that are due run before the clock moves on
timersDue ==
  \/ noSpeechTimeout # NoTimer /\ noSpeechTimeout <= now
  \/ \E t \in hideTimers : t <= now

Advance(maxTicks) ==
  /\ ~crashed
  /\ ~timersDue
  /\ now + TickInterval <= StartTime + maxTicks * TickInterval
  /\ now' = now + TickInterval
  /\ UNCHANGED << storeVars, titleVars, isListening, engineVars, error,
                  watchVars, crashed, probe >>

\* the silence test with its operands exchanged
silenceTooLong_Swapped(clock, lastSpeech) == lastSpeech - clock > SilenceThreshold

\* timeSinceLastSpeech > 5000
silenceTooLong(clock, lastSpeech) == clock - lastSpeech > SilenceThreshold

\* the interval callback
CheckSpeechDetection ==
  /\ ~crashed
  /\ noSpeechTimeout # NoTimer
  /\ noSpeechTimeout <= now
  /\ noSpeechTimeout' = noSpeechTimeout + TickInterval
  /\ IF silenceTooLong(now, lastSpeechDetected)
       THEN /\ showNoSpeechDetected' = TRUE
            /\ hideTimers' = hideTimers \cup {now + HideDelay}
       ELSE UNCHANGED << showNoSpeechDetected, hideTimers >>
  /\ UNCHANGED << storeVars, titleVars, isListening, engineVars, error,
                  lastSpeechDetected, now, crashed, probe >>

\* the setTimeout callback
HideNoSpeechDetected(t) ==
  /\ ~crashed
  /\ t \in hideTimers
  /\ t <= now
  /\ showNoSpeechDetected' = FALSE
  /\ hideTimers' = hideTimers \ {t}
  /\ UNCHANGED << storeVars, titleVars, isListening, engineVars, error,
                  noSpeechTimeout, lastSpeechDetected, now, crashed, probe >>

(***************************************************************************)
(* Specification of the application                                        *)
(***************************************************************************)
Next ==
  \/ \E snapshot \in Started, t \in Transcripts : OnResult(snapshot, t)
  \/ \E snapshot \in Started, c \in ErrorCodes : OnError(snapshot, c)
  \/ ToggleListening
  \/ \E v \in TypedContents : HandleTextChange(v)
  \/ \E written \in BOOLEAN : CopyToClipboard(written)
  \/ AddNewTab
  \/ \E id \in TabIds(tabs) : CloseTab(id)
  \/ \E i \in 1..Len(tabs) : StartEditingTitle(i)
  \/ \E v \in TypedTitles : HandleTitleChange(v)
  \/ FinishEditingTitle
  \/ CancelEditingTitle
  \/ \E id \in TabIds(tabs) : HandleTabClick(id)
  \/ Advance(MaxTicks)
  \/ CheckSpeechDetection
  \/ \E t \in hideTimers : HideNoSpeechDetected(t)

Spec == Init /\ [][Next]_vars

(***************************************************************************)
(* Dictation: the listening session, the utterances and the tab changes    *)
(* that redirect them.  Every content is built by voice from an empty      *)
(* document.                                                               *)
(***************************************************************************)
DictationNext ==
  \/ \E snapshot \in Started, t \in Transcripts : OnResult(snapshot, t)
  \/ ToggleListening
  \/ AddNewTab
  \/ \E id \in TabIds(tabs) : HandleTabClick(id)
  \/ Advance(MaxTicks)
  \/ CheckSpeechDetection

DictationSpec == Init /\ [][DictationNext]_vars

(***************************************************************************)
(* Store: the tab operations, with utterances of a running session         *)
(***************************************************************************)
StoreNext ==
  \/ \E v \in TypedContents : HandleTextChange(v)
  \/ AddNewTab
  \/ \E id \in TabIds(tabs) : CloseTab(id)
  \/ \E i \in 1..Len(tabs) : StartEditingTitle(i)
  \/ \E v \in TypedTitles : HandleTitleChange(v)
  \/ FinishEditingTitle
  \/ CancelEditingTitle
  \/ \E id \in TabIds(tabs) : HandleTabClick(id)
  \/ ToggleListening
  \/ \E snapshot \in Started, t \in StoreTranscripts : OnResult(snapshot, t)
  \/ Advance(MaxTicks)
  \/ CheckSpeechDetection

StoreSpec == Init /\ [][StoreNext]_vars

(***************************************************************************)
(* Watchdog: the listening session with its interval and timeouts, run     *)
(* past the silence threshold.  The textarea is cleared to make room for   *)
(* further utterances.                                                     *)
(***************************************************************************)
WatchNext ==
  \/ ToggleListening
  \/ \E snapshot \in Started, t \in WatchTranscripts : OnResult(snapshot, t)
  \/ \E snapshot \in Started, c \in ErrorCodes : OnError(snapshot, c)
  \/ HandleTextChange(<<>>)
  \/ Advance(MaxWatchTicks)
  \/ CheckSpeechDetection
  \/ \E t \in hideTimers : HideNoSpeechDetected(t)

WatchSpec == Init /\ [][WatchNext]_vars

\* due callbacks run and the clock moves on; the user and the engine are
\* free to do nothing
WatchFairness ==
  /\ WF_vars(CheckSpeechDetection)
  /\ WF_vars(\E t \in hideTimers : HideNoSpeechDetected(t))
  /\ WF_vars(Advance(MaxWatchTicks))

LiveSpec == WatchSpec /\ WatchFairness

(***************************************************************************)
(* Messages: the error banner, with and without a recognition engine       *)
(***************************************************************************)
NoticeNext ==
  \/ ToggleListening
  \/ \E snapshot \in Started, t \in WatchTranscripts : OnResult(snapshot, t)
  \/ \E snapshot \in Started, c \in ErrorCodes : OnError(snapshot, c)
  \/ \E v \in TypedContents : HandleTextChange(v)
  \/ \E written \in BOOLEAN : CopyToClipboard(written)
  \/ Advance(MaxTicks)
  \/ CheckSpeechDetection

NoticeSpec == Init /\ [][NoticeNext]_vars

(***************************************************************************)
(* Merge rules on their own: one utterance handled on a one-tab store      *)
(* whose content and transcript are drawn from bounded sets                *)
(***************************************************************************)
RECURSIVE SeqsUpTo(_, _)
SeqsUpTo(alphabet, n) ==
  IF n = 0
    THEN {<<>>}
    ELSE SeqsUpTo(alphabet, n - 1)
           \cup {Append(q, c) : q \in SeqsUpTo(alphabet, n - 1), c \in alphabet}

ProbeAlphabet == {"a", " ", ".", "\n"}

ProbeContents == SeqsUpTo(ProbeAlphabet, MaxProbeLen)

ProbeTranscripts ==
  CommandKeys \cup ObjectPrototypeKeys \cup
  { <<>>,
    <<"a">>,
    <<" ", "A", " ">>,
    <<"P", "e", "r", "i", "o", "d">>,
    <<" ", "n", "e", "w", " ", "l", "i", "n", "e", "\n">>,
    <<"n", "e", "w">>,
    <<"p", "e", "r", "i", "o", "d", "s">>,
    <<"a", " ", "p", "e", "r", "i", "o", "d">> }

probeTabs(content) ==
  << [id |-> <<"1">>,
      title |-> <<"U", "n", "t", "i", "t", "l", "e", "d", " ", "1">>,
      content |-> content] >>

MergeInit ==
  /\ Mounted
  /\ recognition = "stopped"
  /\ probe \in [phase : {"input"}, content : ProbeContents,
                transcript : ProbeTranscripts, result : {<<>>}, kind : {""}]

\* onresult on the one-tab store holding probe.content, from a recognition
\* object built for that store
ApplyProbe ==
  LET ts == probeTabs(probe.content)
      transcriptText == normalize(probe.transcript)
      kind == resultKind(closure(ts), ts, <<"1">>, transcriptText)
  IN /\ probe.phase = "input"
     /\ probe' = [probe EXCEPT
                    !.phase = "done",
                    !.kind = kind,
                    !.result =
                      IF merges(kind)
                        THEN mergedTabs(closure(ts), ts, <<"1">>, transcriptText)[1].content
                        ELSE probe.content]
     /\ UNCHANGED << storeVars, titleVars, isListening, engineVars, error,
                     watchVars, now, crashed >>

MergeNext == ApplyProbe

MergeSpec == MergeInit /\ [][MergeNext]_vars

(***************************************************************************)
(* Persisted state: the component mounted on a document.cookie drawn from  *)
(* bounded sets                                                            *)
(***************************************************************************)
\* ids of saved tabs, in the order the application can have created them
SavedIds == << <<"1">>, String(StartTime), String(StartTime + TickInterval) >>

SavedTab(k, content) ==
  [id |-> SavedIds[k], title |-> <<"U", "n", "t", "i", "t", "l", "e", "d">>,
   content |-> content]

\* the non-empty tab lists of at most n tabs, ids in creation order
RECURSIVE SavedTabLists(_)
SavedTabLists(n) ==
  IF n = 0
    THEN {}
    ELSE SavedTabLists(n - 1)
           \cup {<<SavedTab(k, c)>> : k \in 1..Len(SavedIds), c \in TypedContents}
           \cup {Append(ts, SavedTab(k, c)) :
                   ts \in {q \in SavedTabLists(n - 1) : Len(q) = n - 1},
                   k \in 1..Len(SavedIds), c \in TypedContents}

\* the tabs the application can have saved: ids strictly in creation order
OrderedTabLists ==
  {ts \in SavedTabLists(MaxTabs) :
     \A i, j \in 1..Len(ts) :
       i < j => \E a, b \in 1..Len(SavedIds) :
                  a < b /\ ts[i].id = SavedIds[a] /\ ts[j].id = SavedIds[b]}

\* the row 'tabs=...' of document.cookie: absent, or the text
\* encodeURIComponent(JSON.stringify(json)), whole or cut short
TabsRows ==
  {[present |-> FALSE, json |-> <<>>, intact |-> FALSE]}
    \cup [present : {TRUE}, json : OrderedTabLists, intact : BOOLEAN]

\* the row 'activeTab=...' of document.cookie
ActiveTabRows ==
  {[present |-> FALSE, value |-> <<>>]}
    \cup [present : {TRUE}, value : {SavedIds[k] : k \in 1..Len(SavedIds)}]

\* the tabs initializer: JSON.parse gives back the list a whole text was
\* written from and throws on a text that was cut short
initialTabs(row) ==
  IF row.present /\ row.intact THEN row.json ELSE DefaultTabs

\* the activeTabId initializer
initialActiveTabId(row) ==
  IF row.present THEN row.value ELSE <<"1">>

LoadInit ==
  /\ Mounted
  /\ recognition = "stopped"
  /\ probe \in [phase : {"cookie"}, tabsRow : TabsRows, activeTabRow : ActiveTabRows]

\* the first render and its effects on the cookie held in probe
Mount ==
  /\ probe.phase = "cookie"
  /\ probe' = [probe EXCEPT !.phase = "loaded"]
  /\ tabs' = initialTabs(probe.tabsRow)
  /\ activeTabId' = initialActiveTabId(probe.activeTabRow)
  /\ activeTabRef' = activeTabId'
  /\ crashed' = renderThrows(tabs')
  /\ UNCHANGED << titleVars, isListening, engineVars, error, watchVars, now >>

LoadNext == Mount

LoadSpec == LoadInit /\ [][LoadNext]_vars

(***************************************************************************)
(* Properties                                                              *)
(***************************************************************************)
\* the substitution a handled phrase looked up
probeCommand == lookupCommand(normalize(probe.transcript)).value

hasDoubleSpace(content) ==
  \E k \in 1..(Len(content) - 1) : content[k] = " " /\ content[k + 1] = " "

\* C1: while listening, a dictated utterance is appended with its first
\* character upper-cased exactly when the active document's content at the
\* moment it is handled is empty or ends with ". ", "! " or "? ", and is
\* appended as received otherwise.
C1_CapitalizedByCurrentContent ==
  [][\A snapshot \in Started, t \in Transcripts :
       ( /\ isListening
         /\ resultKind(snapshot, tabs, activeTabRef, normalize(t)) = "dictated"
         /\ OnResult(snapshot, t) )
       => \A i \in 1..Len(tabs) :
            tabs[i].id = activeTabRef =>
              tabs'[i].content =
                dictatedContent(tabs[i].content,
                                processText(sentenceStart(tabs[i].content),
                                            normalize(t)))]_vars

\* C2: a command whose substitution begins with a line break gives
\* content + " " + S when the content is non-empty and does not end with a
\* space, and content + S in every other case; no space follows S.
C2_LineBreakAppended ==
  ( /\ probe.phase = "done"
    /\ probe.kind = "command"
    /\ startsWith(probeCommand, LF) )
  => probe.result =
       IF probe.content # <<>> /\ ~endsWith(probe.content, SP)
         THEN probe.content \o SP \o probeCommand
         ELSE probe.content \o probeCommand

\* the old content as a punctuation command keeps it
keptContent(content) ==
  IF content # <<>> /\ endsWith(content, SP) THEN sliceDropLast(content) ELSE content

\* C3: a command whose substitution S does not begin with a line break
\* gives the content without one trailing space, then S, then one space;
\* the characters on either side of the junction of old content and S are
\* never both spaces.
C3_PunctuationAttached ==
  ( /\ probe.phase = "done"
    /\ probe.kind = "command"
    /\ ~startsWith(probeCommand, LF) )
  => /\ probe.result = keptContent(probe.content) \o probeCommand \o SP
     /\ LET junction == Len(keptContent(probe.content))
        IN junction >= 1 =>
             ~( probe.result[junction] = " " /\ probe.result[junction + 1] = " " )

\* C3 witness: "period" handled on a content that ends with a space
C3_Witness ==
  /\ probe.phase = "done"
  /\ probe.kind = "command"
  /\ probe.content = <<"a", " ">>
  /\ probeCommand = <<".">>
  /\ probe.result = <<"a", ".", " ">>

\* C4: a document filled by voice alone never holds two consecutive spaces.
C4_NoDoubleSpace ==
  \A i \in 1..Len(tabs) : ~hasDoubleSpace(tabs[i].content)

\* C5: a phrase is handled as a command exactly when it is one of the 17
\* keys of the table, as dictated text otherwise, and handling never fails.
C5_ExactClassification ==
  probe.phase = "done"
  => /\ probe.kind \in {"command", "dictated"}
     /\ probe.kind = "command" <=> normalize(probe.transcript) \in CommandKeys

\* the tabs after onresult has handled transcript t
afterResult(snapshot, t) ==
  IF merges(resultKind(snapshot, tabs, activeTabRef, normalize(t)))
    THEN mergedTabs(snapshot, tabs, activeTabRef, normalize(t))
    ELSE tabs

\* C6: while listening, whichever document is active now, the next
\* utterance delivered changes the content of that document and of no other.
C6_RedirectedToActive ==
  isListening
  => \A snapshot \in Started, t \in Transcripts :
       normalize(t) \notin ObjectPrototypeKeys
       => \A i \in 1..Len(tabs) :
            (tabs[i].id = activeTabId)
              <=> (afterResult(snapshot, t)[i].content # tabs[i].content)

\* C7: there is at least one document and activeId is the id of exactly
\* one document.
C7_ActiveResolves ==
  /\ Len(tabs) >= 1
  /\ Cardinality({i \in 1..Len(tabs) : tabs[i].id = activeTabId}) = 1

\* ts without its k-th element
removeAt(ts, k) == SubSeq(ts, 1, k - 1) \o SubSeq(ts, k + 1, Len(ts))

\* C8: close(id) changes nothing when one document is left; otherwise it
\* removes exactly the document with that id, keeps the order of the
\* others, and moves activeId to the left neighbour (the right one for the
\* first document) only when the closed document was active.
C8_CloseRemovesOne ==
  [][\A id \in TabIds(tabs) :
       CloseTab(id)
       => IF Len(tabs) = 1
            THEN tabs' = tabs /\ activeTabId' = activeTabId
            ELSE /\ \E k \in 1..Len(tabs) :
                      tabs[k].id = id /\ tabs' = removeAt(tabs, k)
                 /\ activeTabId' =
                      IF activeTabId # id THEN activeTabId
                      ELSE IF findIndex(tabs, id) > 1
                        THEN tabs[findIndex(tabs, id) - 1].id
                        ELSE tabs[findIndex(tabs, id) + 1].id]_vars

\* C9: create() appends one document with empty content, title
\* "Untitled n" for n the count before the call plus 1 and an id no stored
\* document has, and makes it active; the stored ids stay pairwise distinct.
C9_FreshId ==
  [][AddNewTab
       => /\ Len(tabs') = Len(tabs) + 1
          /\ SubSeq(tabs', 1, Len(tabs)) = tabs
          /\ tabs'[Len(tabs')].content = <<>>
          /\ tabs'[Len(tabs')].title =
               <<"U", "n", "t", "i", "t", "l", "e", "d", " ">> \o String(Len(tabs) + 1)
          /\ tabs'[Len(tabs')].id \notin TabIds(tabs)
          /\ activeTabId' = tabs'[Len(tabs')].id
          /\ \A i, j \in 1..Len(tabs') : i # j => tabs'[i].id # tabs'[j].id]_vars

\* the silence threshold is exceeded in a running session
silenceExceeded ==
  /\ ~crashed
  /\ isListening
  /\ now - lastSpeechDetected > SilenceThreshold

\* the clock can still reach the next tick
beforeHorizon == now + TickInterval <= StartTime + MaxWatchTicks * TickInterval

\* C10: while listening, once more than 5s have passed since the last
\* utterance the warning is raised no later than the next watchdog tick:
\* while it is not shown a tick is due within one period, a tick that finds
\* the threshold exceeded raises it, and so it comes to be shown unless the
\* silence or the session ends first.
C10_WarningRaisedByNextTick ==
  /\ [](silenceExceeded /\ ~showNoSpeechDetected
          => noSpeechTimeout # NoTimer /\ noSpeechTimeout <= now + TickInterval)
  /\ [][silenceExceeded /\ CheckSpeechDetection => showNoSpeechDetected']_vars
  /\ ((silenceExceeded /\ beforeHorizon)
        ~> (showNoSpeechDetected \/ ~silenceExceeded))

\* C10 witness: the warning is shown in a session whose silence has lasted
\* more than 5s
C10_Witness ==
  /\ silenceExceeded
  /\ showNoSpeechDetected
  /\ now - lastSpeechDetected = SilenceThreshold + TickInterval


\* C16: mounted on a cookie whose saved tab list is absent or does not
\* parse, whatever saved active id it holds, the application starts without
\* failing in the default state, one document with empty content that
\* activeId names; mounted on a whole saved state, the tabs and activeId are
\* the saved ones.
C16_LoadedOrDefault ==
  probe.phase = "loaded"
  => /\ ~crashed
     /\ ~(probe.tabsRow.present /\ probe.tabsRow.intact)
          => /\ tabs = DefaultTabs
             /\ tabs[1].content = <<>>
             /\ activeTabId = tabs[1].id
     /\ (probe.tabsRow.present /\ probe.tabsRow.intact /\ probe.activeTabRow.present)
          => /\ tabs = probe.tabsRow.json
             /\ activeTabId = probe.activeTabRow.value


\* C11: a watchdog tick raises the warning, and schedules its clearing 3s
\* later, only when the silence threshold is exceeded and no warning is
\* shown; any other tick changes neither the warning nor the scheduled
\* clearings; a warning that is shown has a clearing due within 3s.
C11_RaisedOnlyWhenInactive ==
  /\ [][CheckSpeechDetection
          => IF silenceTooLong(now, lastSpeechDetected) /\ ~showNoSpeechDetected
               THEN /\ showNoSpeechDetected'
                    /\ hideTimers' = hideTimers \cup {now + HideDelay}
               ELSE UNCHANGED << showNoSpeechDetected, hideTimers >>]_vars
  /\ [](showNoSpeechDetected => \E t \in hideTimers : t <= now + HideDelay)

\* C12: whenever the session is idle the warning is not shown and no
\* watchdog interval is running, whether the session ended by a stop
\* request or by an engine error.
C12_IdleHasNoWatchdog ==
  ~isListening => ~showNoSpeechDetected /\ noSpeechTimeout = NoTimer

\* C12 witness: a session that raised the warning was ended by an engine
\* error while the clearing of the warning was still pending
C12_Witness ==
  /\ ~isListening
  /\ error = "Error occurred in recognition: no-speech"
  /\ hideTimers # {}
  /\ \E t \in hideTimers : t > now

\* C13: an engine error reported while listening makes the session idle and
\* sets a non-empty error message; the session becomes listening again only
\* by a start request of the user.
C13_ErrorForcesIdle ==
  /\ [][\A snapshot \in Started, c \in ErrorCodes :
          (isListening /\ OnError(snapshot, c))
          => ~isListening' /\ error' # ""]_vars
  /\ [][(~isListening /\ isListening') => ToggleListening]_vars

\* C13 witness: the session is idle after the engine reported "no-speech",
\* and no recognition object is running
C13_Witness ==
  /\ ~isListening
  /\ error = "Error occurred in recognition: no-speech"
  /\ Started = {}
  /\ now > StartTime

\* C20: an error message set by an engine error is eventually cleared.
C20_ErrorEventuallyCleared ==
  (error # "" /\ error # NotSupported) ~> (error = "")


\* C14: while listening, every utterance the engine can deliver is merged
\* once into the document that is active when it is handled, whatever tab
\* operations came before it: it is neither dropped nor lost to a failure,
\* the active document's content changes and no other document does.
C14_EveryUtteranceMerged ==
  (isListening /\ ~crashed)
  => \A snapshot \in Started, t \in Transcripts :
       /\ merges(resultKind(snapshot, tabs, activeTabRef, normalize(t)))
       /\ \A i \in 1..Len(tabs) :
            IF tabs[i].id = activeTabId
              THEN /\ Len(afterResult(snapshot, t)[i].content) > Len(tabs[i].content)
                   /\ afterResult(snapshot, t)[i].title = tabs[i].title
              ELSE afterResult(snapshot, t)[i] = tabs[i]

\* C15: while listening, handling an utterance, command or dictated, sets
\* lastSpeechDetected to the current time and hides the warning, in every
\* state of the tabs in which the utterance can arrive (an utterance that
\* changes no variable can only have done so where both already hold).
C15_UtteranceResetsWatchdog ==
  /\ []((isListening /\ ~crashed)
          => \A snapshot \in Started, t \in Transcripts :
               resultKind(snapshot, tabs, activeTabRef, normalize(t)) = "dropped"
               => lastSpeechDetected = now /\ ~showNoSpeechDetected)
  /\ [][\A snapshot \in Started, t \in Transcripts :
          (isListening /\ OnResult(snapshot, t))
          => lastSpeechDetected' = now' /\ ~showNoSpeechDetected']_vars

\* the ids of a tab list, in order
idsOf(ts) == [i \in 1..Len(ts) |-> ts[i].id]

\* C17: a step that neither creates nor closes a tab (rename, select,
\* typing, utterance) keeps the sequence of ids and changes at most one
\* tab: either only the content of the active tab or only the title of the
\* tab being renamed; when no tab has the active id, typing changes nothing.
C17_Frame ==
  [][(Len(tabs') = Len(tabs))
       => LET changed == {i \in 1..Len(tabs) : tabs'[i] # tabs[i]}
          IN /\ idsOf(tabs') = idsOf(tabs)
             /\ Cardinality(changed) <= 1
             /\ \A i \in changed :
                  \/ /\ tabs[i].id = activeTabId
                     /\ tabs'[i].title = tabs[i].title
                  \/ /\ tabs[i].id = isEditingTitle
                     /\ tabs'[i].content = tabs[i].content]_vars

\* C18: a stop request stops the recognition object that the start request
\* started, so that no object is running while the session is idle and at
\* most one is running at any time.
C18_StopStopsStarted ==
  /\ [][(isListening /\ ToggleListening) => Started' = {}]_vars
  /\ [](~isListening => Started = {})
  /\ [](Cardinality(Started) <= 1)


\* C19: without a recognition engine the session is idle in every state, no
\* watchdog interval runs, the warning is not shown, and the error banner
\* keeps showing the notice that speech recognition is not supported.
C19_UnavailableStaysIdle ==
  recognition = "null"
  => /\ ~isListening
     /\ noSpeechTimeout = NoTimer
     /\ ~showNoSpeechDetected
     /\ error = NotSupported

====
